---- MODULE Spec2Model ----
(***************************************************************************)
(* A model of three leaf components of the EUI component library:          *)
(*   - EuiSelectableList: the click handler onAddOrRemoveOption and the    *)
(*     three toggle operations onAddOption / onRemoveOption /              *)
(*     onExcludeOption (src/src/components/common.ts);                     *)
(*   - EuiSuperUpdateButton: mount lifecycle, componentDidUpdate, the      *)
(*     tooltip timer and render (super_update_button.tsx);                 *)
(*   - parseTimeParts of quick_select_utils (only its test is available).  *)
(* Each component has its own specification over the shared variables.     *)
(***************************************************************************)
EXTENDS Integers, Sequences, FiniteSets, TLC

VARIABLES
    \* ---- EuiSelectableList (props are owned by the parent component) ----
    options,          \* props.options: sequence of option records
    visibleOptions,   \* props.visibleOptions: [set, rows]; each row is [ref,
                      \* option], ref the element of options the object is, or 0
    singleSelection,  \* props.singleSelection: "unset" | "false" | "true" | "always"
    allowExclusions,  \* props.allowExclusions: "unset" | "false" | "true"
    pending,          \* onOptionClick has been called, the owner has not re-rendered yet
    passed,           \* the array handed to onOptionClick by the last click
    before,           \* props.options as they were when the last click arrived
    lastOp,           \* toggle operation the last click dispatched to
    lastIndex,        \* index in options of the last clicked option
    clicked,          \* the object the last click was on: [ref, was, now], its
                      \* content on entry to the handler and on return
    excluded,         \* index of the option whose exclude the owner has just
                      \* applied (0: the last applied click was no exclude)
    \* ---- EuiSuperUpdateButton ----
    props,            \* this.props: showTooltip, needsUpdate, isDisabled, isLoading
    phase,            \* lifecycle: "constructed" | "mounted" | "unmounted"
    isMounted,        \* this._isMounted
    tooltip,          \* this.tooltip: "null" or the EuiToolTip "node"
    timers,           \* pending setTimeout callbacks, oldest first: the time each was set
    now,              \* the clock, in ms
    tooltipVisible,   \* whether the EuiToolTip is shown
    buttonText,       \* label produced by the last render
    tooltipContent,   \* content the EuiToolTip got in the last render
    lastActionable,   \* time of the latest update that met the tooltip condition
    lastShow,         \* time of the latest tooltip.showToolTip() call
    lastHide,         \* the latest tooltip.hideToolTip() call: [at, setAt, latest]
    lateFire,         \* a timer callback has run after unmount
    strayCall,        \* showToolTip/hideToolTip has been called after unmount
    \* ---- parseTimeParts ----
    value,            \* first argument: the expression, a sequence of characters
    fallback,         \* second argument: the fallback expression
    durationHours,    \* hours moment.duration reports back to the unit boundary
    out               \* the object returned, NoResult before the call

listVars == <<options, visibleOptions, singleSelection, allowExclusions, pending, passed,
              before, lastOp, lastIndex, clicked, excluded>>

buttonVars == <<props, phase, isMounted, tooltip, timers, now, tooltipVisible,
                buttonText, tooltipContent, lastActionable, lastShow, lastHide,
                lateFire, strayCall>>

parseVars == <<value, fallback, durationHours, out>>

vars == <<listVars, buttonVars, parseVars>>

\* what a step of one component leaves alone
notList == <<buttonVars, parseVars>>
notButton == <<listVars, parseVars>>
notParse == <<listVars, buttonVars>>

(***************************************************************************)
(* Bounds                                                                  *)
(***************************************************************************)
\* number of options in the owner's array
NumOptions == 2
\* ms by which the clock advances in one step
Tick == 1000
\* the clock stops advancing here
MaxTime == 4000
\* setTimeout callbacks that may be pending at once
MaxTimers == 2
\* largest N of the expressions now+Nu / now-Nu
MaxValue == 12
\* largest hour difference moment.duration reports
MaxHours == 6

(***************************************************************************)
(* EuiSelectableList                                                       *)
(***************************************************************************)
\* a property that is absent from an option object (option.checked === undefined)
Undefined == "undefined"

CheckedValues == {Undefined, "on", "off"}

\* EuiSelectableOption: label identifies the row, checked is the tri-state flag
EuiSelectableOption ==
    [label : 1..NumOptions, checked : CheckedValues,
     disabled : BOOLEAN, isGroupLabel : BOOLEAN]

\* JavaScript truthiness of the optional props
Truthy(v) == v \in {"true", "always"}

\* ListRow: a group label is rendered as a presentation <li> without onClick
Clickable(option) == ~option.isGroupLabel

NoOp == "none"

\* mutant of Dispatch: the exclude branch does not look at allowExclusions
DispatchIgnoringAllowExclusions(option, allowExcl) ==
    IF option.disabled THEN NoOp
    ELSE IF option.checked = "on" THEN "exclude"
    ELSE IF option.checked = "off" THEN "remove"
    ELSE "add"

\* the branch of onAddOrRemoveOption a click on `option` takes
Dispatch(option, allowExcl) ==
    IF option.disabled THEN NoOp
    ELSE IF option.checked = "on" /\ Truthy(allowExcl) THEN "exclude"
    ELSE IF option.checked = "on" \/ option.checked = "off" THEN "remove"
    ELSE "add"

\* mutant of onAddOption: single selection unchecks only the 'on' options
onAddOptionKeepingOff(opts, at, single) ==
    [k \in 1..Len(opts) |->
        LET updatedOption == IF Truthy(single) /\ opts[k].checked = "on"
                             THEN [opts[k] EXCEPT !.checked = Undefined]
                             ELSE opts[k]
        IN  IF k = at THEN [updatedOption EXCEPT !.checked = "on"]
            ELSE updatedOption]

\* onAddOption: options.map(...) with `option === addedOption` true at index `at`
\* (at = 0: the clicked object is no element of options)
onAddOption(opts, at, single) ==
    [k \in 1..Len(opts) |->
        LET updatedOption == IF Truthy(single)
                             THEN [opts[k] EXCEPT !.checked = Undefined]
                             ELSE opts[k]
        IN  IF k = at THEN [updatedOption EXCEPT !.checked = "on"]
            ELSE updatedOption]

\* mutant of onRemoveOption: the 'always' guard is missing
onRemoveOptionAlwaysClearing(opts, at, single) ==
    [k \in 1..Len(opts) |->
        IF k = at THEN [opts[k] EXCEPT !.checked = Undefined] ELSE opts[k]]

\* onRemoveOption: options.map(...), the clicked option loses checked unless 'always'
onRemoveOption(opts, at, single) ==
    [k \in 1..Len(opts) |->
        IF k = at /\ single # "always"
        THEN [opts[k] EXCEPT !.checked = Undefined]
        ELSE opts[k]]

\* onExcludeOption, first statement: excludedOption.checked = 'off' on the
\* clicked object itself, which is element `at` of the owner's array
ExcludeInPlace(opts, at) ==
    [k \in 1..Len(opts) |->
        IF k = at THEN [opts[k] EXCEPT !.checked = "off"] ELSE opts[k]]

\* mutant of onExcludeOption: the clicked option is cleared instead of set to 'off'
onExcludeOptionClearing(opts, at) ==
    [k \in 1..Len(opts) |->
        IF k = at THEN [opts[k] EXCEPT !.checked = Undefined] ELSE opts[k]]

\* onExcludeOption, the map over the (already mutated) array
onExcludeOption(opts, at) ==
    LET mutated == ExcludeInPlace(opts, at)
    IN  [k \in 1..Len(mutated) |->
            IF k = at THEN [mutated[k] EXCEPT !.checked = "off"] ELSE mutated[k]]

\* the array passed to onOptionClick by the operation `op`
UpdatedOptions(op, opts, at, single) ==
    CASE op = "add" -> onAddOption(opts, at, single)
      [] op = "remove" -> onRemoveOption(opts, at, single)
      [] op = "exclude" -> onExcludeOption(opts, at)

\* mutant of OptionsAfterHandler: add also writes to the clicked object itself
OptionsAfterHandlerAddInPlace(op, opts, at) ==
    IF op = "exclude" THEN ExcludeInPlace(opts, at)
    ELSE IF op = "add" /\ at # 0 THEN [opts EXCEPT ![at].checked = "on"]
    ELSE opts

\* props.options after the handler returned and before the owner reacts
OptionsAfterHandler(op, opts, at) ==
    IF op = "exclude" THEN ExcludeInPlace(opts, at) ELSE opts

\* option arrays an owner passes in: labels in order, a group label is a plain heading
WellFormedOption(o) ==
    o.isGroupLabel => (o.checked = Undefined /\ ~o.disabled)

\* the arrays checked: a group label, if there is one, heads the list and a
\* disabled option, if there is one, ends it
InitialOptions ==
    {os \in [1..NumOptions -> EuiSelectableOption] :
        \A k \in 1..NumOptions :
            /\ os[k].label = k
            /\ WellFormedOption(os[k])
            /\ os[k].isGroupLabel => k = 1
            /\ os[k].disabled => k = NumOptions}

\* an option object handed to onAddOrRemoveOption: `ref` is the index of the
\* element of props.options it is (0: identical to none), `row` its index in
\* visibleOptions when it is an object of that array only (0 otherwise)
RowObject(ref, row, option) == [ref |-> ref, row |-> row, option |-> option]

\* mutant of IdentityIndex: the clicked option is looked up by its label
IdentityIndexByLabel(obj) == obj.option.label

\* the index k with `options[k] === clickedOption`, 0 when there is none
IdentityIndex(obj) == obj.ref

\* the clicked object on return: only onExcludeOption assigns to it
ClickedAfterHandler(op, option) ==
    IF op = "exclude" THEN [option EXCEPT !.checked = "off"] ELSE option

\* the k-th smallest member of a set of indices
NthOf(F, k) == CHOOSE m \in F : Cardinality({n \in F : n < m}) = k - 1

\* a visibleOptions array the owner builds from `opts`: the elements whose
\* index is in `keep`, in order, either the option objects themselves
\* (options.filter(...)) or fresh copies ({...option}) equal in content
VisibleRows(opts, keep, shared) ==
    [set |-> TRUE,
     rows |-> [j \in 1..Cardinality(keep) |->
                 [ref |-> IF shared THEN NthOf(keep, j) ELSE 0,
                  option |-> opts[NthOf(keep, j)]]]]

NoVisibleOptions == [set |-> FALSE, rows |-> <<>>]

\* the visibleOptions arrays an owner may pass with `opts`
VisibleChoices(opts) ==
    {NoVisibleOptions} \cup
    {VisibleRows(opts, keep, shared) :
        keep \in SUBSET DOMAIN opts, shared \in BOOLEAN}

\* render: optionArray = visibleOptions || options, as the objects of its rows
OptionArray ==
    IF visibleOptions.set
    THEN [j \in DOMAIN visibleOptions.rows |->
            RowObject(visibleOptions.rows[j].ref,
                      IF visibleOptions.rows[j].ref = 0 THEN j ELSE 0,
                      visibleOptions.rows[j].option)]
    ELSE [k \in DOMAIN options |-> RowObject(k, 0, options[k])]

\* visibleOptions after the handler returned: a row that is the clicked object
\* carries what the handler assigned to it
VisibleAfterHandler(op, obj) ==
    [visibleOptions EXCEPT !.rows =
        [j \in DOMAIN visibleOptions.rows |->
            IF \/ (obj.ref # 0 /\ visibleOptions.rows[j].ref = obj.ref)
               \/ (obj.ref = 0 /\ obj.row = j)
            THEN [visibleOptions.rows[j] EXCEPT
                    !.option = ClickedAfterHandler(op, obj.option)]
            ELSE visibleOptions.rows[j]]]

\* visibleOptions once the owner has replaced options by `arr`, an array of new
\* objects: the array it keeps holds the old objects, now identical to no
\* element; one it builds anew keeps the same filter
VisibleAfterApply(visible, arr) ==
    IF ~visibleOptions.set THEN visibleOptions
    ELSE IF visible = "keep"
    THEN [visibleOptions EXCEPT !.rows =
            [j \in DOMAIN visibleOptions.rows |->
                [visibleOptions.rows[j] EXCEPT !.ref = 0]]]
    ELSE [visibleOptions EXCEPT !.rows =
            [j \in DOMAIN visibleOptions.rows |->
                LET k == visibleOptions.rows[j].option.label
                IN  [ref |-> IF visible = "share" THEN k ELSE 0,
                     option |-> arr[k]]]]

NoOption ==
    [label |-> 0, checked |-> Undefined, disabled |-> FALSE, isGroupLabel |-> FALSE]

NoClicked == [ref |-> 0, was |-> NoOption, now |-> NoOption]

ListStart ==
    /\ options \in InitialOptions
    /\ visibleOptions \in VisibleChoices(options)
    /\ singleSelection \in {"unset", "false", "true", "always"}
    /\ allowExclusions \in {"unset", "false", "true"}
    /\ pending = FALSE
    /\ passed = <<>>
    /\ before = <<>>
    /\ lastOp = NoOp
    /\ lastIndex = 0
    /\ clicked = NoClicked
    /\ excluded = 0

\* onAddOrRemoveOption(option), a public method. For a disabled option it
\* returns at once: nothing is called and nothing changes (the call is on
\* record in `clicked` unless a callback is awaiting the owner, whose record
\* stays until the owner answers). Otherwise it runs one
\* toggle operation, which calls onOptionClick once with the new array. The
\* owner's re-render arrives after the handler has returned; a call that arrives
\* before it works on the same props.
HandleClick(obj) ==
    /\ LET op == Dispatch(obj.option, allowExclusions)
           at == IdentityIndex(obj)
       IN  /\ op = NoOp => ~pending
           /\ IF op = NoOp
              THEN /\ UNCHANGED <<options, visibleOptions, passed, pending>>
                   /\ excluded' = 0
              ELSE /\ passed' = UpdatedOptions(op, options, at, singleSelection)
                   /\ options' = OptionsAfterHandler(op, options, at)
                   /\ visibleOptions' = VisibleAfterHandler(op, obj)
                   /\ pending' = TRUE
                   /\ excluded' = IF pending THEN 0 ELSE excluded
           /\ clicked' = [ref |-> obj.ref, was |-> obj.option,
                          now |-> ClickedAfterHandler(op, obj.option)]
           /\ lastOp' = op
           /\ lastIndex' = at
    /\ before' = options
    /\ UNCHANGED <<singleSelection, allowExclusions>>
    /\ UNCHANGED notList

\* a click on row i of a list rendered from props.options (ListRow's onClick)
OnAddOrRemoveOption(i) ==
    /\ ~visibleOptions.set
    /\ i \in DOMAIN options
    /\ Clickable(options[i])
    /\ HandleClick(OptionArray[i])

\* a click on row j of a list rendered from visibleOptions
OnAddOrRemoveOptionVisible(j) ==
    /\ visibleOptions.set
    /\ j \in DOMAIN visibleOptions.rows
    /\ Clickable(visibleOptions.rows[j].option)
    /\ HandleClick(OptionArray[j])

\* ListRow gives the object a row with an onClick
HasClickableRow(obj) ==
    /\ Clickable(obj.option)
    /\ \E j \in DOMAIN OptionArray : OptionArray[j] = obj

\* the owner calls the public method itself with an element of props.options
\* that has no clickable row: a group label, or an element that is not rendered
\* (with one that has, the call is the step of that row's click)
OnAddOrRemoveOptionElement(k) ==
    /\ k \in DOMAIN options
    /\ ~HasClickableRow(RowObject(k, 0, options[k]))
    /\ HandleClick(RowObject(k, 0, options[k]))

\* the owner calls the public method with an object of visibleOptions that has
\* no clickable row: a group label
OnAddOrRemoveOptionRow(j) ==
    /\ visibleOptions.set
    /\ j \in DOMAIN visibleOptions.rows
    /\ ~HasClickableRow(OptionArray[j])
    /\ HandleClick(OptionArray[j])

\* option objects of neither array: the handler reads `checked` and `disabled`
\* of its argument and nothing else, so these two fields range freely
ForeignOptions ==
    {o \in EuiSelectableOption : o.label = 1 /\ ~o.isGroupLabel}

\* the owner calls the public method with an object of neither array
OnAddOrRemoveOptionForeign(o) ==
    /\ o.label \in DOMAIN options
    /\ HandleClick(RowObject(0, 0, o))

\* the owner stores the array it was passed and re-renders the list with it,
\* keeping its visibleOptions array or building a new one from the new options
OwnerApply(visible) ==
    /\ pending
    /\ options' = passed
    /\ visibleOptions' = VisibleAfterApply(visible, passed)
    /\ excluded' = IF lastOp = "exclude" THEN lastIndex ELSE 0
    /\ pending' = FALSE
    /\ passed' = <<>>
    /\ before' = <<>>
    /\ lastOp' = NoOp
    /\ lastIndex' = 0
    /\ clicked' = NoClicked
    /\ UNCHANGED <<singleSelection, allowExclusions>>
    /\ UNCHANGED notList

\* the owner ignores the callback: the list keeps the props it had
OwnerIgnore ==
    /\ pending
    /\ excluded' = 0
    /\ pending' = FALSE
    /\ passed' = <<>>
    /\ before' = <<>>
    /\ lastOp' = NoOp
    /\ lastIndex' = 0
    /\ clicked' = NoClicked
    /\ UNCHANGED <<options, visibleOptions, singleSelection, allowExclusions>>
    /\ UNCHANGED notList

ListNext ==
    \/ \E i \in 1..NumOptions : OnAddOrRemoveOption(i)
    \/ \E j \in 1..NumOptions : OnAddOrRemoveOptionVisible(j)
    \/ \E k \in 1..NumOptions : OnAddOrRemoveOptionElement(k)
    \/ \E j \in 1..NumOptions : OnAddOrRemoveOptionRow(j)
    \/ \E o \in ForeignOptions : OnAddOrRemoveOptionForeign(o)
    \/ \E visible \in {"keep", "share", "copy"} : OwnerApply(visible)
    \/ OwnerIgnore

\* the list before any props were passed (the other components' specifications)
ListParked ==
    /\ options = <<>>
    /\ visibleOptions = NoVisibleOptions
    /\ singleSelection = "unset"
    /\ allowExclusions = "unset"
    /\ pending = FALSE
    /\ passed = <<>>
    /\ before = <<>>
    /\ lastOp = NoOp
    /\ lastIndex = 0
    /\ clicked = NoClicked
    /\ excluded = 0

(***************************************************************************)
(* EuiSuperUpdateButton                                                    *)
(***************************************************************************)
\* delay of the tooltip-hide timer, ms
TooltipDelay == 2000

None == -1

\* toolTipProps as far as render depends on it: whether it has a content key,
\* and that key's value
NoToolTipProps == [hasContent |-> FALSE, content |-> Undefined]

EuiToolTipProps ==
    {NoToolTipProps,
     [hasContent |-> TRUE, content |-> "Custom text"],
     [hasContent |-> TRUE, content |-> Undefined]}

EuiSuperUpdateButtonProps ==
    [showTooltip : BOOLEAN, needsUpdate : BOOLEAN,
     isDisabled : BOOLEAN, isLoading : BOOLEAN, toolTipProps : EuiToolTipProps]

defaultProps ==
    [showTooltip |-> FALSE, needsUpdate |-> FALSE,
     isDisabled |-> FALSE, isLoading |-> FALSE, toolTipProps |-> NoToolTipProps]

\* mutant of RenderButtonText: needsUpdate is tested before isLoading
RenderButtonTextUpdateFirst(p) ==
    IF p.needsUpdate THEN "Update"
    ELSE IF p.isLoading THEN "Updating"
    ELSE "Refresh"

\* render: buttonText
RenderButtonText(p) ==
    IF p.needsUpdate \/ p.isLoading
    THEN (IF p.isLoading THEN "Updating" ELSE "Update")
    ELSE "Refresh"

\* render: the local tooltipContent
TooltipContentFromFlags(p) ==
    IF p.isDisabled THEN "Cannot update"
    ELSE IF p.needsUpdate /\ ~p.isLoading THEN "Click to apply"
    ELSE Undefined

\* render: the content the EuiToolTip gets, content={tooltipContent} followed
\* by {...toolTipProps}, whose content key, if it has one, replaces it
RenderTooltipContent(p) ==
    IF p.toolTipProps.hasContent THEN p.toolTipProps.content
    ELSE TooltipContentFromFlags(p)

\* componentDidUpdate: the condition under which the tooltip is shown
TooltipCondition(p) ==
    p.showTooltip /\ p.needsUpdate /\ ~p.isDisabled /\ ~p.isLoading

\* showTooltip: passes the early return
showTooltipGuard == isMounted /\ tooltip # "null"

\* mutant of hideTooltipGuard: the _isMounted test is missing
hideTooltipGuardRefOnly == tooltip # "null"

\* hideTooltip: passes the early return
hideTooltipGuard == isMounted /\ tooltip # "null"

\* mutant of TimerDue: the timeout is set without a delay
TimerDueAtOnce(setAt) == setAt

\* setTimeout(..., 2000): the earliest time a callback set at `setAt` runs
TimerDue(setAt) == setAt + TooltipDelay

NoHide == [at |-> None, setAt |-> None, latest |-> None]

\* the instance after construction, with the props of its first render
ButtonStart ==
    /\ props \in EuiSuperUpdateButtonProps
    /\ phase = "constructed"
    /\ isMounted = FALSE
    /\ tooltip = "null"
    /\ timers = <<>>
    /\ now = 0
    /\ tooltipVisible = FALSE
    /\ buttonText = Undefined
    /\ tooltipContent = Undefined
    /\ lastActionable = None
    /\ lastShow = None
    /\ lastHide = NoHide
    /\ lateFire = FALSE
    /\ strayCall = FALSE

\* no button instance (the other components' specifications)
ButtonParked ==
    /\ props = defaultProps
    /\ phase = "constructed"
    /\ isMounted = FALSE
    /\ tooltip = "null"
    /\ timers = <<>>
    /\ now = 0
    /\ tooltipVisible = FALSE
    /\ buttonText = Undefined
    /\ tooltipContent = Undefined
    /\ lastActionable = None
    /\ lastShow = None
    /\ lastHide = NoHide
    /\ lateFire = FALSE
    /\ strayCall = FALSE

\* first render, setTootipRef(node), componentDidMount
Mount ==
    /\ phase = "constructed"
    /\ phase' = "mounted"
    /\ buttonText' = RenderButtonText(props)
    /\ tooltipContent' = RenderTooltipContent(props)
    /\ tooltip' = "node"
    /\ isMounted' = TRUE
    /\ UNCHANGED <<props, timers, now, tooltipVisible, lastActionable, lastShow,
                   lastHide, lateFire, strayCall>>
    /\ UNCHANGED notButton

\* the parent re-renders the button with props p: render, then componentDidUpdate
Update(p) ==
    /\ phase = "mounted"
    /\ props' = p
    /\ buttonText' = RenderButtonText(p)
    /\ tooltipContent' = RenderTooltipContent(p)
    /\ IF TooltipCondition(p)
       THEN /\ Len(timers) < MaxTimers
            /\ lastActionable' = now
            /\ IF showTooltipGuard
               THEN tooltipVisible' = TRUE /\ lastShow' = now
               ELSE UNCHANGED <<tooltipVisible, lastShow>>
            /\ timers' = Append(timers, now)
       ELSE UNCHANGED <<lastActionable, tooltipVisible, lastShow, timers>>
    /\ UNCHANGED <<phase, isMounted, tooltip, now, lastHide, lateFire, strayCall>>
    /\ UNCHANGED notButton

\* componentWillUnmount; the framework may or may not detach the tooltip ref
Unmount(detach) ==
    /\ phase = "mounted"
    /\ phase' = "unmounted"
    /\ isMounted' = FALSE
    /\ tooltip' = IF detach THEN "null" ELSE tooltip
    /\ UNCHANGED <<props, timers, now, tooltipVisible, buttonText, tooltipContent,
                   lastActionable, lastShow, lastHide, lateFire, strayCall>>
    /\ UNCHANGED notButton

\* the oldest pending timeout runs its callback, hideTooltip(); timeouts are
\* never cleared, so this also happens after unmount
TimerFires ==
    /\ timers # <<>>
    /\ now >= TimerDue(Head(timers))
    /\ timers' = Tail(timers)
    /\ lateFire' = (lateFire \/ phase = "unmounted")
    /\ IF hideTooltipGuard
       THEN /\ tooltipVisible' = FALSE
            /\ lastHide' = [at |-> now, setAt |-> Head(timers),
                            latest |-> lastActionable]
            /\ strayCall' = (strayCall \/ phase = "unmounted")
       ELSE UNCHANGED <<tooltipVisible, lastHide, strayCall>>
    /\ UNCHANGED <<props, phase, isMounted, tooltip, now, buttonText,
                   tooltipContent, lastActionable, lastShow>>
    /\ UNCHANGED notButton

\* time passes
Advance ==
    /\ now + Tick <= MaxTime
    /\ now' = now + Tick
    /\ UNCHANGED <<props, phase, isMounted, tooltip, timers, tooltipVisible,
                   buttonText, tooltipContent, lastActionable, lastShow, lastHide,
                   lateFire, strayCall>>
    /\ UNCHANGED notButton

ButtonNext ==
    \/ Mount
    \/ \E p \in EuiSuperUpdateButtonProps : Update(p)
    \/ \E detach \in BOOLEAN : Unmount(detach)
    \/ TimerFires
    \/ Advance

(***************************************************************************)
(* parseTimeParts (quick_select_utils): the function is not among the      *)
(* sources, only its test; it is modelled from the specification's grammar *)
(* now | now+Nu | now-Nu | now/u and the test's four cases.                *)
(***************************************************************************)
NowExpr == <<"n", "o", "w">>

Units == {"s", "m", "h", "d", "w", "M", "y"}

DigitChars == <<"0", "1", "2", "3", "4", "5", "6", "7", "8", "9">>

DigitValue(c) == CHOOSE d \in 0..9 : DigitChars[d + 1] = c

\* decimal digits of n, most significant first
RECURSIVE ToDigits(_)
ToDigits(n) ==
    IF n < 10 THEN <<DigitChars[n + 1]>>
    ELSE Append(ToDigits(n \div 10), DigitChars[(n % 10) + 1])

\* the number a sequence of decimal digits denotes
RECURSIVE ParseInt(_)
ParseInt(ds) ==
    IF ds = <<>> THEN 0
    ELSE ParseInt(SubSeq(ds, 1, Len(ds) - 1)) * 10 + DigitValue(ds[Len(ds)])

\* the expression now<sign><n><unit>
Relative(sign, n, unit) == NowExpr \o <<sign>> \o ToDigits(n) \o <<unit>>

\* the expression now/<unit>
Rounded(unit) == NowExpr \o <<"/", unit>>

\* the parts of a now<sign><N><unit> expression
RelativeParts(e) ==
    [timeTense |-> IF e[Len(NowExpr) + 1] = "+" THEN "next" ELSE "last",
     timeUnits |-> e[Len(e)],
     timeValue |-> ParseInt(SubSeq(e, Len(NowExpr) + 2, Len(e) - 1))]

\* mutant of parseTimeParts: a bare "now" is "next 0 units" of the fallback's unit
parseTimePartsNowIsZero(v, fb, hours) ==
    IF v = NowExpr
    THEN [timeTense |-> "next", timeUnits |-> RelativeParts(fb).timeUnits,
          timeValue |-> 0]
    ELSE IF v[Len(NowExpr) + 1] = "/"
    THEN [timeTense |-> "last", timeUnits |-> "h", timeValue |-> hours]
    ELSE RelativeParts(v)

\* parseTimeParts(value, fallback): "now" takes unit and value from the
\* fallback with tense next; now/u is "last <hours> h"; now+Nu / now-Nu give
\* tense from the sign, N and u
parseTimeParts(v, fb, hours) ==
    IF v = NowExpr
    THEN [timeTense |-> "next", timeUnits |-> RelativeParts(fb).timeUnits,
          timeValue |-> RelativeParts(fb).timeValue]
    ELSE IF v[Len(NowExpr) + 1] = "/"
    THEN [timeTense |-> "last", timeUnits |-> "h", timeValue |-> hours]
    ELSE RelativeParts(v)

NoResult == [timeTense |-> Undefined, timeUnits |-> Undefined, timeValue |-> None]

\* well-formed expressions
Expressions ==
    {NowExpr}
        \cup {Relative(sg, n, u) : sg \in {"+", "-"}, n \in 1..MaxValue, u \in Units}
        \cup {Rounded(u) : u \in Units}

\* well-formed fallbacks of the form now+Nu
Fallbacks == {Relative("+", n, u) : n \in 1..MaxValue, u \in Units}

ParseStart ==
    /\ value \in Expressions
    /\ fallback \in Fallbacks
    /\ durationHours \in 0..MaxHours
    /\ out = NoResult

\* no call (the other components' specifications)
ParseParked ==
    /\ value = NowExpr
    /\ fallback = NowExpr
    /\ durationHours = 0
    /\ out = NoResult

\* the call parseTimeParts(value, fallback)
ParseTimeParts ==
    /\ out = NoResult
    /\ out' = parseTimeParts(value, fallback, durationHours)
    /\ UNCHANGED <<value, fallback, durationHours>>
    /\ UNCHANGED notParse

ParseNext == ParseTimeParts

ParseInit == ParseStart /\ ListParked /\ ButtonParked

SpecParse == ParseInit /\ [][ParseNext]_vars

ListInit == ListStart /\ ButtonParked /\ ParseParked

ButtonInit == ButtonStart /\ ListParked /\ ParseParked

SpecButton == ButtonInit /\ [][ButtonNext]_vars

SpecList == ListInit /\ [][ListNext]_vars

(***************************************************************************)
(* EuiSelectableList: properties                                           *)
(***************************************************************************)
CountOn(opts) == Cardinality({k \in 1..Len(opts) : opts[k].checked = "on"})

\* everything of an option but its checked flag
SameButChecked(a, b) ==
    /\ a.label = b.label
    /\ a.disabled = b.disabled
    /\ a.isGroupLabel = b.isGroupLabel

\* the last click was on an object that is an element of props.options
\* (clicks on objects identical to no element are the subject of C11)
OnElement == pending /\ lastOp # NoOp /\ clicked.ref # 0

\* C1: in single-selection 'always' mode, for any allowExclusions, once exactly
\* one option is 'on', a click whose array the owner applies leaves exactly one
\* option 'on'.
C1_AlwaysKeepsOneOn ==
    [][(/\ singleSelection = "always"
        /\ OnElement
        /\ CountOn(before) = 1
        /\ ~pending'
        /\ options' = passed)
       => CountOn(options') = 1]_vars

\* the checked value that follows c in the three-state cycle
CycleNext(c) ==
    CASE c = Undefined -> "on"
      [] c = "on" -> "off"
      [] c = "off" -> Undefined

\* the value that follows c under repeated clicks when 'always' forbids removal
CycleNextIn(c, single) ==
    IF c = "off" /\ single = "always" THEN "off" ELSE CycleNext(c)

ExcludeOnlyWhenOnAndAllowed ==
    (pending /\ lastOp # NoOp) =>
        (lastOp = "exclude"
            <=> (allowExclusions = "true" /\ clicked.was.checked = "on"))

\* the click is on the option whose exclude the owner has just applied
NextClickOnExcluded == OnElement /\ excluded # 0 /\ clicked.ref = excluded

\* C2 as stated: with allowExclusions=true, in every singleSelection mode, a
\* click on an option moves its checked value one step along
\* undefined -> 'on' -> 'off' -> undefined in the array passed, the click that
\* follows an applied exclude of the same option takes the remove branch and
\* clears checked, and exclude happens only when allowExclusions is true and
\* the clicked option is 'on'.
C2_CycleInEveryMode ==
    /\ ExcludeOnlyWhenOnAndAllowed
    /\ (allowExclusions = "true" /\ OnElement) =>
            passed[lastIndex].checked = CycleNext(before[lastIndex].checked)
    /\ NextClickOnExcluded =>
            (lastOp = "remove" /\ passed[lastIndex].checked = Undefined)

\* C2 amended: the cycle is undefined -> 'on' -> 'off' -> undefined when
\* singleSelection is not 'always'; in 'always' mode the click on an 'off'
\* option still takes the remove branch but leaves it 'off'. Exclude happens
\* only when allowExclusions is true and the clicked option is 'on'.
C2_CycleUnlessAlways ==
    /\ ExcludeOnlyWhenOnAndAllowed
    /\ (allowExclusions = "true" /\ OnElement) =>
            passed[lastIndex].checked =
                CycleNextIn(before[lastIndex].checked, singleSelection)
    /\ NextClickOnExcluded =>
            /\ before[lastIndex].checked = "off"
            /\ lastOp = "remove"
            /\ passed[lastIndex].checked = CycleNextIn("off", singleSelection)

\* C2 witness: exclusions allowed, the owner applied the exclude of an 'on'
\* option, and the next click on that option took the remove branch and
\* cleared checked
C2_Witness ==
    /\ allowExclusions = "true"
    /\ singleSelection # "always"
    /\ NextClickOnExcluded
    /\ lastOp = "remove"
    /\ before[lastIndex].checked = "off"
    /\ passed[lastIndex].checked = Undefined

\* C3: a click on a non-disabled option runs exactly one toggle operation,
\* chosen from the option's checked value and allowExclusions alone: 'on' with
\* exclusions allowed -> exclude; otherwise 'on' or 'off' -> remove; otherwise
\* add.
C3_DispatchRule ==
    (pending /\ lastOp # NoOp) =>
        LET option == clicked.was
        IN  /\ ~option.disabled
            /\ lastOp \in {"add", "remove", "exclude"}
            /\ option.checked = "on" /\ allowExclusions = "true"
                    => lastOp = "exclude"
            /\ option.checked = "on" /\ allowExclusions \in {"false", "unset"}
                    => lastOp = "remove"
            /\ option.checked = "off" => lastOp = "remove"
            /\ option.checked = Undefined => lastOp = "add"

\* C3 witness: an 'on' option clicked with allowExclusions unset is removed
C3_Witness ==
    /\ OnElement
    /\ allowExclusions = "unset"
    /\ before[lastIndex].checked = "on"
    /\ lastOp = "remove"

\* C4: in single-selection mode (true or 'always') a click on an unchecked
\* option passes an array of the same length and order in which the clicked
\* index is 'on' and no other option has a checked value, whatever the others
\* had.
C4_SingleAddSelectsOnlyClicked ==
    (OnElement /\ lastOp = "add" /\ singleSelection \in {"true", "always"}) =>
        /\ Len(passed) = Len(before)
        /\ \A k \in 1..Len(before) : SameButChecked(passed[k], before[k])
        /\ passed[lastIndex].checked = "on"
        /\ \A k \in 1..Len(passed) :
                k # lastIndex => passed[k].checked = Undefined

\* C4 witness: a single-selection add while another option was 'off', which
\* the passed array has cleared
C4_Witness ==
    /\ OnElement
    /\ lastOp = "add"
    /\ singleSelection = "true"
    /\ \E k \in 1..Len(before) :
            /\ k # lastIndex
            /\ before[k].checked = "off"
            /\ passed[k].checked = Undefined

\* C5: on the remove branch, unless singleSelection is 'always' the passed
\* array has no checked on the clicked option and every other option as
\* before; with 'always' the passed array equals the current options.
C5_RemoveClearsUnlessAlways ==
    (OnElement /\ lastOp = "remove") =>
        IF singleSelection # "always"
        THEN /\ Len(passed) = Len(before)
             /\ passed[lastIndex].checked = Undefined
             /\ SameButChecked(passed[lastIndex], before[lastIndex])
             /\ \A k \in 1..Len(before) : k # lastIndex => passed[k] = before[k]
        ELSE passed = before

\* C5 witness: in 'always' mode a click on the 'on' option took the remove
\* branch while another option was 'off'
C5_Witness ==
    /\ OnElement
    /\ lastOp = "remove"
    /\ singleSelection = "always"
    /\ before[lastIndex].checked = "on"
    /\ \E k \in 1..Len(before) : k # lastIndex /\ before[k].checked = "off"

\* C6: add and remove leave the owner's options array and its option objects
\* as they were; exclude sets checked to 'off' in place on the clicked option
\* of the owner's array (and on nothing else), and the array it passes is a
\* copy of that.
C6_CopyOnWriteButExclude ==
    pending =>
        /\ lastOp \in {"add", "remove"} => options = before
        /\ (lastOp = "exclude" /\ clicked.ref # 0) =>
            /\ before[lastIndex].checked = "on"
            /\ options[lastIndex].checked = "off"
            /\ \A k \in 1..Len(before) : k # lastIndex => options[k] = before[k]
            /\ passed = options

\* C6 witness: an exclude has changed the owner's array before the owner reacted
C6_Witness ==
    /\ OnElement
    /\ lastOp = "exclude"
    /\ options # before
    /\ options[lastIndex].checked = "off"

\* the last call of onAddOrRemoveOption was given an object identical to no
\* element of props.options
OnNonElement == clicked # NoClicked /\ clicked.ref = 0

\* what C11 says of the array passed for a non-identical object
NothingTakesTheClickedState ==
    /\ options = before
    /\ Len(passed) = Len(options)
    /\ IF lastOp = "add" /\ singleSelection \in {"true", "always"}
       THEN \A k \in 1..Len(options) :
                /\ passed[k].checked = Undefined
                /\ SameButChecked(passed[k], options[k])
       ELSE passed = options

\* C11 as stated: when the clicked object is identical to no element of
\* props.options, the click still calls onOptionClick, and no option of the
\* passed array takes the clicked state: an add in single-selection mode clears
\* checked on every option and selects none; in every other case the passed
\* array is content-equal to options.
C11_EveryCopyClickCalls ==
    OnNonElement =>
        /\ pending
        /\ lastOp # NoOp
        /\ NothingTakesTheClickedState

\* C11 amended: the same for a non-identical object that is not disabled; for a
\* disabled one the call returns without calling onOptionClick and options are
\* as they were.
C11_CopyClickSelectsNothing ==
    OnNonElement =>
        IF clicked.was.disabled
        THEN /\ lastOp = NoOp
             /\ options = before
             /\ clicked.now = clicked.was
        ELSE /\ pending
             /\ lastOp # NoOp
             /\ NothingTakesTheClickedState

\* C11 witness: in single-selection mode an unchecked object identical to no
\* element was clicked while two options were 'on': the add cleared both and
\* selected none
C11_Witness ==
    /\ pending
    /\ OnNonElement
    /\ lastOp = "add"
    /\ singleSelection = "true"
    /\ CountOn(options) = 2
    /\ CountOn(passed) = 0

(***************************************************************************)
(* EuiSuperUpdateButton: properties                                        *)
(***************************************************************************)
\* while mounted, every update that met the tooltip condition called
\* showToolTip, and the tooltip is shown until a later hideToolTip call
ShownOnEveryActionableUpdate ==
    (phase = "mounted" /\ lastActionable # None) =>
        /\ lastShow = lastActionable
        /\ lastHide.at < lastShow => tooltipVisible

\* C7 as stated: while mounted, every update with showTooltip && needsUpdate &&
\* !isDisabled && !isLoading shows the tooltip, and no hideToolTip call occurs
\* earlier than 2000 ms after the most recent such update.
C7_HiddenNoEarlierThanLatestUpdate ==
    /\ ShownOnEveryActionableUpdate
    /\ lastHide.at # None => lastHide.at - lastHide.latest >= 2000

\* C7 amended: while mounted, every such update shows the tooltip, and no
\* hideToolTip call occurs earlier than 2000 ms after the update that set its
\* timer; timers of earlier updates are not cancelled, so a call may come
\* less than 2000 ms after the most recent update.
C7_HiddenNoEarlierThanItsOwnUpdate ==
    /\ ShownOnEveryActionableUpdate
    /\ lastHide.at # None =>
        /\ lastHide.setAt # None
        /\ lastHide.setAt <= lastHide.latest
        /\ lastHide.at - lastHide.setAt >= 2000

\* C7 witness: hideToolTip was called by the timer of an earlier update, less
\* than 2000 ms after the most recent one, with the button still mounted
C7_Witness ==
    /\ phase = "mounted"
    /\ lastHide.at # None
    /\ lastHide.setAt < lastHide.latest
    /\ lastHide.at - lastHide.latest < 2000
    /\ lastHide.at - lastHide.setAt >= 2000

\* C8: after unmount no showToolTip or hideToolTip call is made, whatever the
\* interleaving of updates, unmount and the timers set before unmount.
C8_NoToolTipCallAfterUnmount == ~strayCall

\* C8 witness: a timer set before unmount ran after it, with the tooltip ref
\* still attached, and made no call
C8_Witness ==
    /\ phase = "unmounted"
    /\ lateFire
    /\ tooltip = "node"
    /\ ~strayCall

\* the tooltip text the three flags call for
TextForFlags ==
    IF props.isDisabled THEN "Cannot update"
    ELSE IF props.needsUpdate /\ ~props.isLoading THEN "Click to apply"
    ELSE Undefined

LabelForFlags ==
    /\ props.isLoading => buttonText = "Updating"
    /\ (props.needsUpdate /\ ~props.isLoading) => buttonText = "Update"
    /\ (~props.needsUpdate /\ ~props.isLoading) => buttonText = "Refresh"

\* C9 as stated: label and tooltip text depend on (needsUpdate, isLoading,
\* isDisabled) only: "Updating" whenever isLoading, "Update" when needsUpdate
\* and not isLoading, "Refresh" otherwise; "Cannot update" whenever isDisabled.
C9_TextFromFlagsOnly ==
    phase = "mounted" =>
        /\ LabelForFlags
        /\ props.isDisabled => tooltipContent = "Cannot update"
        /\ tooltipContent = TextForFlags

\* C9 amended: the label depends on the three flags only, as stated; the
\* tooltip text is the one the flags call for ("Cannot update" whenever
\* isDisabled) when toolTipProps has no content key, and is toolTipProps.content
\* when it has one.
C9_LabelAndTooltipText ==
    phase = "mounted" =>
        /\ LabelForFlags
        /\ IF props.toolTipProps.hasContent
           THEN tooltipContent = props.toolTipProps.content
           ELSE /\ props.isDisabled => tooltipContent = "Cannot update"
                /\ tooltipContent = TextForFlags

\* C9 witness: a disabled, loading button that needs an update was rendered
\* with toolTipProps that has no content key
C9_Witness ==
    /\ phase = "mounted"
    /\ props.isLoading /\ props.needsUpdate /\ props.isDisabled
    /\ ~props.toolTipProps.hasContent
    /\ buttonText = "Updating"
    /\ tooltipContent = "Cannot update"

(***************************************************************************)
(* parseTimeParts: properties                                              *)
(***************************************************************************)
\* C10: parseTimeParts("now", fallback) returns tense 'next' with the unit and
\* value of the fallback, for every well-formed fallback now+Nu.
C10_NowTakesFallbackParts ==
    (out # NoResult /\ value = NowExpr) =>
        \A n \in 1..MaxValue, u \in Units :
            fallback = Relative("+", n, u) =>
                out = [timeTense |-> "next", timeUnits |-> u, timeValue |-> n]

\* C10 witness: the test's case, parseTimeParts('now', 'now+5m')
C10_Witness ==
    /\ value = <<"n", "o", "w">>
    /\ fallback = <<"n", "o", "w", "+", "5", "m">>
    /\ out = [timeTense |-> "next", timeUnits |-> "m", timeValue |-> 5]

====
